---- MODULE Spec2Model ----
(***************************************************************************)
(* Home Library: registration, login, JWT tokens, the two session          *)
(* resolvers (bearer header, cookie) and the ownership-scoped book CRUD,    *)
(* as implemented in app/auth.py, app/crud.py, app/schemas.py,              *)
(* app/api/*.py, app/web/routes.py and app/main.py.                         *)
(*                                                                         *)
(* Strings are sequences of Unicode code points, byte strings are          *)
(* sequences of bytes, time is in whole seconds.                            *)
(***************************************************************************)
EXTENDS Integers, Sequences, FiniteSets, TLC

VARIABLES
    lib,      \* the installed bcrypt build: what hashpw does with > 72 bytes
    probe,    \* a direct call sequence hash_password / verify_password
    users,    \* table users, in insertion order; id = position
    books,    \* table books, in insertion order
    now,      \* datetime.utcnow(), in seconds
    ticks,    \* how often the clock has advanced
    reg,      \* register requests in flight, suspended at an await
    bearer,   \* the token the API client holds (Authorization: Bearer)
    jar,      \* the browser's cookie jar: the library_token cookie
    last      \* the response delivered for the last completed request

vars == <<lib, probe, users, books, now, ticks, reg, bearer, jar, last>>

---------------------------------------------------------------------------
(* Bounds of the model *)

MaxTicks == 2
MaxUsers == 2
MaxBooks == 2
MaxReq == 2
MaxSalt == 1

---------------------------------------------------------------------------
(* Program constants *)

BcryptMaxBytes == 72
DefaultExpireSeconds == 900
RegisterExpireSeconds == 1800
UsernameMinLen == 3
UsernameMaxLen == 50
PasswordMinLen == 6
PasswordMaxLen == 72
TitleMaxLen == 200
AuthorMaxLen == 100
DescriptionMaxLen == 1000
DefaultLimit == 100

Rep(c, n) == [i \in 1..n |-> c]

RECURSIVE Flatten(_)
Flatten(ss) == IF ss = <<>> THEN <<>> ELSE Head(ss) \o Flatten(Tail(ss))

---------------------------------------------------------------------------
(* str.encode('utf-8') *)

Utf8Char(cp) ==
    IF cp < 128 THEN <<cp>>
    ELSE IF cp < 2048 THEN <<192 + (cp \div 64), 128 + (cp % 64)>>
    ELSE <<224 + (cp \div 4096), 128 + ((cp \div 64) % 64), 128 + (cp % 64)>>

Utf8(s) == Flatten([i \in 1..Len(s) |-> Utf8Char(s[i])])

Truncate(bytes, n) == IF Len(bytes) > n THEN SubSeq(bytes, 1, n) ELSE bytes

---------------------------------------------------------------------------
(* bcrypt.  hashpw is modelled as an ideal hash: the digest stands for      *)
(* exactly the bytes and the salt that went in.  A build before bcrypt 5    *)
(* silently cuts the password to 72 bytes, a build from bcrypt 5 on raises  *)
(* ValueError; the repository pins no version.                              *)

Salts == 1..MaxSalt
NoHash == [salt |-> 0, digest |-> <<>>]
ValueError == [salt |-> -1, digest |-> <<>>]

hashpw(bytes, salt, build) ==
    IF Len(bytes) > BcryptMaxBytes
    THEN IF build = "truncates"
         THEN [salt |-> salt, digest |-> SubSeq(bytes, 1, BcryptMaxBytes)]
         ELSE ValueError
    ELSE [salt |-> salt, digest |-> bytes]

\* bcrypt.checkpw: "True", "False" or "ValueError"
checkpw(bytes, hashed, build) ==
    LET ret == hashpw(bytes, hashed.salt, build)
    IN  IF ret = ValueError THEN "ValueError"
        ELSE IF ret = hashed THEN "True" ELSE "False"

\* auth.verify_password: the candidate goes to checkpw as it is
verify_password(plain_password, hashed_password, build) ==
    checkpw(Utf8(plain_password), hashed_password, build)

\* auth.hash_password: cut to 72 bytes, then hashpw with a fresh salt
hash_password(password, salt, build) ==
    hashpw(Truncate(Utf8(password), BcryptMaxBytes), salt, build)

---------------------------------------------------------------------------
(* Inputs: strings as code points *)

Ann == <<97, 110, 110>>
Bob == <<98, 111, 98>>
Al == <<97, 108>>
PwA == Rep(97, 6)
PwB == Rep(98, 6)
PwShort == Rep(97, 5)
PwWide == Rep(1103, 37)
PwWideZ == Rep(1103, 36) \o <<122, 122>>
Pw80 == Rep(97, 80)
Pw80Z == Rep(97, 72) \o Rep(122, 8)

Builds == {"truncates", "raises"}

---------------------------------------------------------------------------
(* Direct calls of the password hasher *)

ProbePasswords == {PwA, PwB, PwWide, PwWideZ, Pw80, Pw80Z, Rep(97, 72)}

IdleProbe ==
    [pc |-> "start", p1 |-> PwA, p2 |-> PwA, salt |-> 1,
     hashed |-> NoHash, result |-> "none"]

ProbeHash ==
    /\ probe.pc = "start"
    /\ probe' = [probe EXCEPT !.pc = "hashed",
                    !.hashed = hash_password(probe.p1, probe.salt, lib)]
    /\ UNCHANGED <<lib, users, books, now, ticks, reg, bearer, jar, last>>

ProbeVerify ==
    /\ probe.pc = "hashed"
    /\ probe' = [probe EXCEPT !.pc = "verified",
                    !.result = verify_password(probe.p2, probe.hashed, lib)]
    /\ UNCHANGED <<lib, users, books, now, ticks, reg, bearer, jar, last>>

---------------------------------------------------------------------------
(* Token service: jose.jwt with SECRET_KEY, HS256 *)

SECRET_KEY == "your-super-secret-jwt-key-change-in-production"

NoSub == <<-1>>
NoToken == [sub |-> NoSub, exp |-> 0, key |-> "absent"]
Malformed == [sub |-> NoSub, exp |-> 0, key |-> "malformed"]

\* Optional[timedelta]: None, or a number of seconds
NoDelta == [given |-> FALSE, seconds |-> 0]
Delta(n) == [given |-> TRUE, seconds |-> n]

\* `if expires_delta:` is the truth value of the timedelta: None and
\* timedelta(0) both take the else branch
create_access_token(sub, expires_delta, t) ==
    LET expire == IF expires_delta.given /\ expires_delta.seconds # 0
                  THEN t + expires_delta.seconds
                  ELSE t + DefaultExpireSeconds
    IN  [sub |-> sub, exp |-> expire, key |-> SECRET_KEY]

\* jwt.decode(token, SECRET_KEY, algorithms=[ALGORITHM]): the payload, or
\* JWTError for a malformed token, a signature made with another key, or
\* an exp before the current second
JWTError == [ok |-> FALSE, sub |-> NoSub]

\* mutant: decoding with verify_exp switched off
jwt_decode_no_exp(token, t) ==
    IF token.key # SECRET_KEY THEN JWTError
    ELSE [ok |-> TRUE, sub |-> token.sub]

\* mutant: a token is refused from the second of its exp on
jwt_decode_exp_excluded(token, t) ==
    IF token.key # SECRET_KEY THEN JWTError
    ELSE IF token.exp <= t THEN JWTError
    ELSE [ok |-> TRUE, sub |-> token.sub]

jwt_decode(token, t) ==
    IF token.key # SECRET_KEY THEN JWTError
    ELSE IF token.exp < t THEN JWTError
    ELSE [ok |-> TRUE, sub |-> token.sub]

---------------------------------------------------------------------------
(* Credential store *)

NoUser == [id |-> 0, username |-> <<>>, hashed_password |-> NoHash]

UserRows(table) == {table[i] : i \in 1..Len(table)}

\* select(User).where(User.username == username) ... scalar_one_or_none()
user_by_username(table, username) ==
    IF \E u \in UserRows(table) : u.username = username
    THEN CHOOSE u \in UserRows(table) : u.username = username
    ELSE NoUser

\* auth.authenticate_user: the user, False, or the exception checkpw raised
authenticate_user(table, username, password, build) ==
    LET user == user_by_username(table, username)
        v == verify_password(password, user.hashed_password, build)
    IN  IF user = NoUser THEN [outcome |-> "False", user |-> NoUser]
        ELSE IF v = "ValueError" THEN [outcome |-> "ValueError", user |-> NoUser]
        ELSE IF v = "False" THEN [outcome |-> "False", user |-> NoUser]
        ELSE [outcome |-> "user", user |-> user]

---------------------------------------------------------------------------
(* Session resolver *)

\* auth.get_current_user_web: the user, or None (NoUser); never raises
\* mutant: the payload is read without verifying signature and exp
get_current_user_web_unverified(cookie, table, t) ==
    IF cookie = NoToken THEN NoUser
    ELSE IF cookie.sub = NoSub THEN NoUser
    ELSE user_by_username(table, cookie.sub)

get_current_user_web(cookie, table, t) ==
    IF cookie = NoToken THEN NoUser
    ELSE LET payload == jwt_decode(cookie, t)
         IN  IF ~payload.ok THEN NoUser
             ELSE IF payload.sub = NoSub THEN NoUser
             ELSE user_by_username(table, payload.sub)

\* auth.get_current_user, behind OAuth2PasswordBearer: the user, or the
\* 401 raised before the handler body runs
Unauthorized == [raised |-> TRUE, user |-> NoUser]

\* mutant: the user row the sub names is not checked for None
get_current_user_any_sub(token, table, t) ==
    IF token = NoToken THEN Unauthorized
    ELSE LET payload == jwt_decode(token, t)
         IN  IF ~payload.ok THEN Unauthorized
             ELSE IF payload.sub = NoSub THEN Unauthorized
             ELSE [raised |-> FALSE,
                   user |-> user_by_username(table, payload.sub)]

get_current_user(token, table, t) ==
    IF token = NoToken THEN Unauthorized
    ELSE LET payload == jwt_decode(token, t)
         IN  IF ~payload.ok THEN Unauthorized
             ELSE IF payload.sub = NoSub THEN Unauthorized
             ELSE IF user_by_username(table, payload.sub) = NoUser
                  THEN Unauthorized
                  ELSE [raised |-> FALSE,
                        user |-> user_by_username(table, payload.sub)]

---------------------------------------------------------------------------
(* HTTP layer: what FastAPI delivers to the client *)

EmptyResponse ==
    [status |-> 200, location |-> "", set_cookie |-> NoToken,
     delete_cookie |-> FALSE, www_authenticate |-> FALSE,
     access_token |-> NoToken, detail |-> "", books |-> <<>>]

JSONResponse(status_code, detail) ==
    [EmptyResponse EXCEPT !.status = status_code, !.detail = detail]

TemplateResponse(name, status_code) ==
    [EmptyResponse EXCEPT !.status = status_code, !.detail = name]

RedirectResponse(url) ==
    [EmptyResponse EXCEPT !.status = 303, !.location = url]

HTTPException(status_code, detail, bearer_header) ==
    [status |-> status_code, detail |-> detail, www_authenticate |-> bearer_header]

\* main.custom_http_exception_handler: 404 by surface, anything else as
\* JSONResponse(status_code, {"detail": ...}); exc.headers is not passed on
custom_http_exception_handler(is_api, exc) ==
    IF exc.status = 404
    THEN IF is_api THEN JSONResponse(404, "API endpoint not found")
         ELSE TemplateResponse("404.html", 404)
    ELSE JSONResponse(exc.status, exc.detail)

\* an exception no handler is registered for
InternalServerError == JSONResponse(500, "Internal Server Error")

\* the request body or form failed validation before the handler ran
RequestValidationError == JSONResponse(422, "validation")

\* auth.set_auth_cookie: set_cookie on the response object it is given
set_auth_cookie(response, token) == [response EXCEPT !.set_cookie = token]

\* A handler that returns a Response object has that object sent as it is;
\* the injected `response: Response` parameter contributes its headers only
\* when the handler returns something else.
Deliver(returned, injected) == returned

\* the browser stores or drops the library_token cookie as the response says
JarAfter(cookies, resp) ==
    IF resp.delete_cookie THEN NoToken
    ELSE IF resp.set_cookie # NoToken THEN resp.set_cookie
    ELSE cookies

---------------------------------------------------------------------------
(* schemas.UserCreate *)

UserCreateValid(username, password) ==
    /\ Len(username) >= UsernameMinLen
    /\ Len(username) <= UsernameMaxLen
    /\ Len(password) >= PasswordMinLen
    /\ Len(password) <= PasswordMaxLen

\* the same password as the stored one, as far as bcrypt can tell them apart
SameCredentials(table, username, password) ==
    LET user == user_by_username(table, username)
    IN  /\ user # NoUser
        /\ user.hashed_password.digest = Truncate(Utf8(password), BcryptMaxBytes)

Credentials(table, username, password) ==
    IF user_by_username(table, username) = NoUser THEN "unknown"
    ELSE IF SameCredentials(table, username, password) THEN "good"
    ELSE "wrong"

NoRequest == [op |-> "none", req |-> [token |-> NoToken], resp |-> EmptyResponse]
IdleReg == [pc |-> "idle", surface |-> "", username |-> <<>>, password |-> <<>>]

\* the storage-level unique constraint on users.username
UniqueViolation(table, username) == user_by_username(table, username) # NoUser

AddUser(table, username, hashed) ==
    Append(table, [id |-> Len(table) + 1, username |-> username,
                   hashed_password |-> hashed])

---------------------------------------------------------------------------
(* api/auth.py and the auth forms of web/routes.py *)

RegUsernames == {Ann, Al}
LoginUsernames == {Ann, Bob}
RegPasswords == {PwA, PwWide}
LoginPasswords == {PwA, PwB, PwWide}

AuthReq(username, password, table) ==
    [token |-> NoToken, valid |-> UserCreateValid(username, password),
     credentials |-> Credentials(table, username, password)]

\* POST /api/auth/register up to the await of the existence check
register_begin(r, username, password) ==
    /\ reg[r].pc = "idle"
    /\ Len(users) < MaxUsers
    /\ IF ~UserCreateValid(username, password)
       THEN /\ last' = [op |-> "register",
                        req |-> AuthReq(username, password, users),
                        resp |-> RequestValidationError]
            /\ UNCHANGED reg
       ELSE IF user_by_username(users, username) # NoUser
       THEN /\ last' = [op |-> "register",
                        req |-> AuthReq(username, password, users),
                        resp |-> custom_http_exception_handler(TRUE,
                                   HTTPException(400, "username taken", FALSE))]
            /\ UNCHANGED reg
       ELSE /\ reg' = [reg EXCEPT ![r] = [pc |-> "checked", surface |-> "api",
                          username |-> username, password |-> password]]
            /\ UNCHANGED last
    /\ UNCHANGED <<lib, probe, users, books, now, ticks, bearer, jar>>

\* ... and from db.add / await db.commit() to the response
register_commit(r) ==
    /\ reg[r].pc = "checked"
    /\ reg[r].surface = "api"
    /\ \E salt \in Salts :
         LET username == reg[r].username
             hashed_pw == hash_password(reg[r].password, salt, lib)
             access_token == create_access_token(username,
                                 Delta(RegisterExpireSeconds), now)
             request == AuthReq(username, reg[r].password, users)
         IN  IF UniqueViolation(users, username)
             THEN /\ last' = [op |-> "register", req |-> request,
                              resp |-> InternalServerError]
                  /\ UNCHANGED <<users, bearer>>
             ELSE /\ users' = AddUser(users, username, hashed_pw)
                  /\ last' = [op |-> "register", req |-> request,
                              resp |-> [EmptyResponse EXCEPT
                                           !.access_token = access_token]]
                  /\ bearer' = access_token
    /\ reg' = [reg EXCEPT ![r] = IdleReg]
    /\ UNCHANGED <<lib, probe, books, now, ticks, jar>>

\* POST /api/auth/login
login(username, password) ==
    /\ IF ~UserCreateValid(username, password)
       THEN /\ last' = [op |-> "login",
                        req |-> AuthReq(username, password, users),
                        resp |-> RequestValidationError]
            /\ UNCHANGED bearer
       ELSE LET authenticated_user ==
                    authenticate_user(users, username, password, lib)
                access_token == create_access_token(
                    authenticated_user.user.username, NoDelta, now)
            IN  IF authenticated_user.outcome = "ValueError"
                THEN /\ last' = [op |-> "login",
                                 req |-> AuthReq(username, password, users),
                                 resp |-> InternalServerError]
                     /\ UNCHANGED bearer
                ELSE IF authenticated_user.outcome = "False"
                THEN /\ last' = [op |-> "login",
                                 req |-> AuthReq(username, password, users),
                                 resp |-> custom_http_exception_handler(TRUE,
                                     HTTPException(401, "bad credentials", TRUE))]
                     /\ UNCHANGED bearer
                ELSE /\ last' = [op |-> "login",
                                 req |-> AuthReq(username, password, users),
                                 resp |-> [EmptyResponse EXCEPT
                                              !.access_token = access_token]]
                     /\ bearer' = access_token
    /\ UNCHANGED <<lib, probe, users, books, now, ticks, reg, jar>>

\* POST /web/login
login_web(username, password) ==
    /\ LET user == authenticate_user(users, username, password, lib)
           token == create_access_token(user.user.username, NoDelta, now)
           response == set_auth_cookie(EmptyResponse, token)
           delivered ==
               IF user.outcome = "ValueError" THEN InternalServerError
               ELSE IF user.outcome = "False"
               THEN TemplateResponse("login.html", 401)
               ELSE Deliver(RedirectResponse("/web/books"), response)
       IN  /\ last' = [op |-> "login_web",
                       req |-> [AuthReq(username, password, users) EXCEPT
                                   !.token = IF user.outcome = "user"
                                             THEN token ELSE NoToken],
                       resp |-> delivered]
           /\ jar' = JarAfter(jar, delivered)
    /\ UNCHANGED <<lib, probe, users, books, now, ticks, reg, bearer>>

\* POST /web/register up to the await of the existence check
register_web_begin(r, username, password) ==
    /\ reg[r].pc = "idle"
    /\ Len(users) < MaxUsers
    /\ IF \/ Len(Utf8(password)) > BcryptMaxBytes
          \/ Len(username) < UsernameMinLen
          \/ Len(username) > UsernameMaxLen
          \/ user_by_username(users, username) # NoUser
       THEN /\ last' = [op |-> "register_web",
                        req |-> AuthReq(username, password, users),
                        resp |-> TemplateResponse("register.html", 400)]
            /\ UNCHANGED reg
       ELSE /\ reg' = [reg EXCEPT ![r] = [pc |-> "checked", surface |-> "web",
                          username |-> username, password |-> password]]
            /\ UNCHANGED last
    /\ UNCHANGED <<lib, probe, users, books, now, ticks, bearer, jar>>

\* ... and from db.add / await db.commit() to the response
register_web_commit(r) ==
    /\ reg[r].pc = "checked"
    /\ reg[r].surface = "web"
    /\ \E salt \in Salts :
         LET username == reg[r].username
             hashed_pw == hash_password(reg[r].password, salt, lib)
             token == create_access_token(username, NoDelta, now)
             response == set_auth_cookie(EmptyResponse, token)
             delivered == IF UniqueViolation(users, username)
                          THEN InternalServerError
                          ELSE Deliver(RedirectResponse("/web/books"), response)
         IN  /\ users' = IF UniqueViolation(users, username) THEN users
                         ELSE AddUser(users, username, hashed_pw)
             /\ last' = [op |-> "register_web",
                         req |-> [AuthReq(username, reg[r].password, users)
                                    EXCEPT !.token =
                                      IF UniqueViolation(users, username)
                                      THEN NoToken ELSE token],
                         resp |-> delivered]
             /\ jar' = JarAfter(jar, delivered)
    /\ reg' = [reg EXCEPT ![r] = IdleReg]
    /\ UNCHANGED <<lib, probe, books, now, ticks, bearer>>

\* GET /web/logout
logout ==
    /\ last' = [op |-> "logout", req |-> [token |-> jar],
                resp |-> [RedirectResponse("/") EXCEPT !.delete_cookie = TRUE]]
    /\ jar' = NoToken
    /\ UNCHANGED <<lib, probe, users, books, now, ticks, reg, bearer>>

\* time passes
TickSteps == {DefaultExpireSeconds, DefaultExpireSeconds + 1}

Tick(d) ==
    /\ ticks < MaxTicks
    /\ now' = now + d
    /\ ticks' = ticks + 1
    /\ UNCHANGED <<lib, probe, users, books, reg, bearer, jar, last>>

\* a direct call of create_access_token(data, expires_delta)
IssueSubs == {Ann}
IssueDeltas == {Delta(-1), Delta(0), Delta(RegisterExpireSeconds)}

issue(sub, expires_delta) ==
    /\ bearer' = create_access_token(sub, expires_delta, now)
    /\ last' = [op |-> "issue",
                req |-> [token |-> NoToken, expires_delta |-> expires_delta,
                         at |-> now],
                resp |-> [EmptyResponse EXCEPT
                    !.access_token = create_access_token(sub, expires_delta, now)]]
    /\ UNCHANGED <<lib, probe, users, books, now, ticks, reg, jar>>

---------------------------------------------------------------------------
(* schemas.BookCreate, schemas.BookUpdate *)

None == <<-1>>
Unset == <<-2>>

IsStr(v) == v # None /\ v # Unset
StrIn(v, lo, hi) == IsStr(v) /\ Len(v) >= lo /\ Len(v) <= hi

\* every field is required (Field(...)): title, author and description
BookCreateValid(body) ==
    /\ StrIn(body.title, 1, TitleMaxLen)
    /\ StrIn(body.author, 1, AuthorMaxLen)
    /\ StrIn(body.description, 1, DescriptionMaxLen)

\* title and author default to None, description is required (Field(...))
BookUpdateValid(body) ==
    /\ body.title \in {None, Unset} \/ StrIn(body.title, 1, TitleMaxLen)
    /\ body.author \in {None, Unset} \/ StrIn(body.author, 1, AuthorMaxLen)
    /\ StrIn(body.description, 1, DescriptionMaxLen)

\* model_dump(exclude_unset=True).items(), less the values that are None
Applied(value, old) == IF IsStr(value) THEN value ELSE old

---------------------------------------------------------------------------
(* crud.py over the books table *)

NoBook == [id |-> 0, title |-> <<>>, author |-> <<>>, description |-> <<>>,
           owner_id |-> 0]

BookRows(table) == {table[i] : i \in 1..Len(table)}

RECURSIVE MaxId(_)
MaxId(table) ==
    IF table = <<>> THEN 0
    ELSE LET m == MaxId(Tail(table))
         IN  IF Head(table).id > m THEN Head(table).id ELSE m

\* INTEGER PRIMARY KEY of the default sqlite store: largest id in use + 1
NewId(table) == MaxId(table) + 1

create_book(table, book, owner_id) ==
    LET db_book == [id |-> NewId(table), title |-> book.title,
                    author |-> book.author,
                    description |-> IF book.description # None
                                    THEN book.description ELSE <<>>,
                    owner_id |-> owner_id]
    IN  [table |-> Append(table, db_book), result |-> db_book]

Lower(c) == IF c >= 65 /\ c <= 90 THEN c + 32 ELSE c

\* SQL LIKE under ilike: % is any run of characters, _ any one character,
\* anything else itself, letters A-Z without regard to case
RECURSIVE like(_, _)
like(pattern, text) ==
    IF pattern = <<>> THEN text = <<>>
    ELSE IF Head(pattern) = 37
         THEN \/ like(Tail(pattern), text)
              \/ text # <<>> /\ like(pattern, Tail(text))
    ELSE IF text = <<>> THEN FALSE
    ELSE IF Head(pattern) = 95 THEN like(Tail(pattern), Tail(text))
    ELSE /\ Lower(Head(pattern)) = Lower(Head(text))
         /\ like(Tail(pattern), Tail(text))

ilike(column, search) == like(<<37>> \o search \o <<37>>, column)

get_books(table, owner_id, skip, limit, search) ==
    LET Owned(b) == b.owner_id = owner_id
        Match(b) == \/ ~IsStr(search) \/ search = <<>>
                    \/ ilike(b.title, search) \/ ilike(b.author, search)
        Hit(b) == Owned(b) /\ Match(b)
        rows == SelectSeq(table, Hit)
        last_row == IF skip + limit < Len(rows) THEN skip + limit ELSE Len(rows)
    IN  SubSeq(rows, skip + 1, last_row)

\* mutant: the lookup without the owner_id condition
get_book_by_id_any_owner(table, book_id, owner_id) ==
    IF \E b \in BookRows(table) : b.id = book_id
    THEN CHOOSE b \in BookRows(table) : b.id = book_id
    ELSE NoBook

get_book_by_id(table, book_id, owner_id) ==
    IF \E b \in BookRows(table) : b.id = book_id /\ b.owner_id = owner_id
    THEN CHOOSE b \in BookRows(table) : b.id = book_id /\ b.owner_id = owner_id
    ELSE NoBook

\* mutant: the row is looked up by id alone and handed to the caller
update_book_reassigning(table, book_id, book_update, owner_id) ==
    LET book == get_book_by_id_any_owner(table, book_id, owner_id)
        updated == [book EXCEPT
                       !.title = Applied(book_update.title, book.title),
                       !.author = Applied(book_update.author, book.author),
                       !.description = Applied(book_update.description,
                                               book.description),
                       !.owner_id = owner_id]
    IN  IF book = NoBook THEN [table |-> table, result |-> NoBook]
        ELSE [table |-> [i \in 1..Len(table) |->
                            IF table[i] = book THEN updated ELSE table[i]],
              result |-> updated]

update_book(table, book_id, book_update, owner_id) ==
    LET book == get_book_by_id(table, book_id, owner_id)
        updated == [book EXCEPT
                       !.title = Applied(book_update.title, book.title),
                       !.author = Applied(book_update.author, book.author),
                       !.description = Applied(book_update.description,
                                               book.description)]
    IN  IF book = NoBook THEN [table |-> table, result |-> NoBook]
        ELSE [table |-> [i \in 1..Len(table) |->
                            IF table[i] = book THEN updated ELSE table[i]],
              result |-> updated]

\* mutant: the delete is reported but never reaches the table
delete_book_uncommitted(table, book_id, owner_id) ==
    LET book == get_book_by_id(table, book_id, owner_id)
    IN  IF book = NoBook THEN [table |-> table, result |-> FALSE]
        ELSE [table |-> table, result |-> TRUE]

delete_book(table, book_id, owner_id) ==
    LET book == get_book_by_id(table, book_id, owner_id)
        Keep(b) == b # book
    IN  IF book = NoBook THEN [table |-> table, result |-> FALSE]
        ELSE [table |-> SelectSeq(table, Keep), result |-> TRUE]

---------------------------------------------------------------------------
(* api/books.py: the JSON API, behind Depends(get_current_user) *)

NoBody == [title |-> Unset, author |-> Unset, description |-> Unset]

\* the request as sent, and whether its token's exp had passed by then
BookReq(token, book_id, body, search) ==
    [token |-> token, book_id |-> book_id, body |-> body, search |-> search,
     expired |-> token.exp < now]

\* the 401 of get_current_user as the exception handler delivers it
Unauthorized401 ==
    custom_http_exception_handler(TRUE,
        HTTPException(401, "Could not validate credentials", TRUE))

NotFound(is_api) ==
    custom_http_exception_handler(is_api, HTTPException(404, "book not found", FALSE))

\* POST /api/books/
api_create_book(token, book) ==
    /\ Len(books) < MaxBooks
    /\ LET current_user == get_current_user(token, users, now)
           created == create_book(books, book, current_user.user.id)
       IN  IF current_user.raised
           THEN /\ last' = [op |-> "create_book",
                            req |-> BookReq(token, 0, book, None),
                            resp |-> Unauthorized401]
                /\ UNCHANGED books
           ELSE IF ~BookCreateValid(book)
           THEN /\ last' = [op |-> "create_book",
                            req |-> BookReq(token, 0, book, None),
                            resp |-> RequestValidationError]
                /\ UNCHANGED books
           ELSE /\ books' = created.table
                /\ last' = [op |-> "create_book",
                            req |-> BookReq(token, 0, book, None),
                            resp |-> [EmptyResponse EXCEPT
                                         !.books = <<created.result>>]]
    /\ UNCHANGED <<lib, probe, users, now, ticks, reg, bearer, jar>>

\* GET /api/books/?search=
api_read_books(token, search) ==
    /\ LET current_user == get_current_user(token, users, now)
       IN  last' = [op |-> "read_books",
                    req |-> BookReq(token, 0, NoBody, search),
                    resp |-> IF current_user.raised THEN Unauthorized401
                             ELSE [EmptyResponse EXCEPT !.books =
                                     get_books(books, current_user.user.id,
                                               0, DefaultLimit, search)]]
    /\ UNCHANGED <<lib, probe, users, books, now, ticks, reg, bearer, jar>>

\* PUT /api/books/{book_id}
api_update_book(token, book_id, book_update) ==
    /\ LET current_user == get_current_user(token, users, now)
           book == update_book(books, book_id, book_update, current_user.user.id)
       IN  IF current_user.raised
           THEN /\ last' = [op |-> "update_book",
                            req |-> BookReq(token, book_id, book_update, None),
                            resp |-> Unauthorized401]
                /\ UNCHANGED books
           ELSE IF ~BookUpdateValid(book_update)
           THEN /\ last' = [op |-> "update_book",
                            req |-> BookReq(token, book_id, book_update, None),
                            resp |-> RequestValidationError]
                /\ UNCHANGED books
           ELSE /\ books' = book.table
                /\ last' = [op |-> "update_book",
                            req |-> BookReq(token, book_id, book_update, None),
                            resp |-> IF book.result = NoBook THEN NotFound(TRUE)
                                     ELSE [EmptyResponse EXCEPT
                                              !.books = <<book.result>>]]
    /\ UNCHANGED <<lib, probe, users, now, ticks, reg, bearer, jar>>

\* DELETE /api/books/{book_id}
api_delete_book(token, book_id) ==
    /\ LET current_user == get_current_user(token, users, now)
           success == delete_book(books, book_id, current_user.user.id)
       IN  IF current_user.raised
           THEN /\ last' = [op |-> "delete_book",
                            req |-> BookReq(token, book_id, NoBody, None),
                            resp |-> Unauthorized401]
                /\ UNCHANGED books
           ELSE /\ books' = success.table
                /\ last' = [op |-> "delete_book",
                            req |-> BookReq(token, book_id, NoBody, None),
                            resp |-> IF success.result
                                     THEN JSONResponse(200, "book deleted")
                                     ELSE NotFound(TRUE)]
    /\ UNCHANGED <<lib, probe, users, now, ticks, reg, bearer, jar>>

---------------------------------------------------------------------------
(* web/routes.py: the book pages, behind the library_token cookie *)

\* mutant: the page handlers answer a missing identity with an error status
LoginRequired == custom_http_exception_handler(FALSE,
                     HTTPException(401, "login required", FALSE))

LoginRedirect == RedirectResponse("/web/login")

\* GET /web/books?q=
books_list(cookie, q) ==
    /\ LET user == get_current_user_web(cookie, users, now)
       IN  last' = [op |-> "books_list",
                    req |-> BookReq(cookie, 0, NoBody, q),
                    resp |-> IF user = NoUser THEN LoginRedirect
                             ELSE [TemplateResponse("books.html", 200) EXCEPT
                                     !.books = get_books(books, user.id, 0,
                                                         DefaultLimit, q)]]
    /\ UNCHANGED <<lib, probe, users, books, now, ticks, reg, bearer, jar>>

\* POST /web/books/create: the form has title and author
create_book_web(cookie, title, author) ==
    /\ Len(books) < MaxBooks
    /\ LET user == get_current_user_web(cookie, users, now)
           book_in == [title |-> title, author |-> author, description |-> Unset]
           created == create_book(books, book_in, user.id)
       IN  IF user = NoUser
           THEN /\ last' = [op |-> "create_book_web",
                            req |-> BookReq(cookie, 0, book_in, None),
                            resp |-> LoginRedirect]
                /\ UNCHANGED books
           ELSE IF ~BookCreateValid(book_in)
           THEN /\ last' = [op |-> "create_book_web",
                            req |-> BookReq(cookie, 0, book_in, None),
                            resp |-> InternalServerError]
                /\ UNCHANGED books
           ELSE /\ books' = created.table
                /\ last' = [op |-> "create_book_web",
                            req |-> BookReq(cookie, 0, book_in, None),
                            resp |-> RedirectResponse("/web/books")]
    /\ UNCHANGED <<lib, probe, users, now, ticks, reg, bearer, jar>>

\* POST /web/books/{book_id}/update: the form has title and author
update_book_web(cookie, book_id, title, author) ==
    /\ LET user == get_current_user_web(cookie, users, now)
           book_update == [title |-> title, author |-> author,
                           description |-> Unset]
           updated == update_book(books, book_id, book_update, user.id)
       IN  IF user = NoUser
           THEN /\ last' = [op |-> "update_book_web",
                            req |-> BookReq(cookie, book_id, book_update, None),
                            resp |-> LoginRedirect]
                /\ UNCHANGED books
           ELSE IF ~BookUpdateValid(book_update)
           THEN /\ last' = [op |-> "update_book_web",
                            req |-> BookReq(cookie, book_id, book_update, None),
                            resp |-> InternalServerError]
                /\ UNCHANGED books
           ELSE /\ books' = updated.table
                /\ last' = [op |-> "update_book_web",
                            req |-> BookReq(cookie, book_id, book_update, None),
                            resp |-> IF updated.result = NoBook
                                     THEN NotFound(FALSE)
                                     ELSE RedirectResponse("/web/books")]
    /\ UNCHANGED <<lib, probe, users, now, ticks, reg, bearer, jar>>

\* POST /web/books/{book_id}/delete
delete_book_web(cookie, book_id) ==
    /\ LET user == get_current_user_web(cookie, users, now)
           success == delete_book(books, book_id, user.id)
       IN  IF user = NoUser
           THEN /\ last' = [op |-> "delete_book_web",
                            req |-> BookReq(cookie, book_id, NoBody, None),
                            resp |-> LoginRedirect]
                /\ UNCHANGED books
           ELSE /\ books' = success.table
                /\ last' = [op |-> "delete_book_web",
                            req |-> BookReq(cookie, book_id, NoBody, None),
                            resp |-> IF success.result
                                     THEN RedirectResponse("/web/books")
                                     ELSE NotFound(FALSE)]
    /\ UNCHANGED <<lib, probe, users, now, ticks, reg, bearer, jar>>

\* GET /web/books/new
add_book_form(cookie) ==
    /\ LET user == get_current_user_web(cookie, users, now)
       IN  last' = [op |-> "add_book_form",
                    req |-> BookReq(cookie, 0, NoBody, None),
                    resp |-> IF user = NoUser THEN LoginRedirect
                             ELSE TemplateResponse("add_book.html", 200)]
    /\ UNCHANGED <<lib, probe, users, books, now, ticks, reg, bearer, jar>>

\* GET /web/books/{book_id}/edit
edit_book_form(cookie, book_id) ==
    /\ LET user == get_current_user_web(cookie, users, now)
           book == get_book_by_id(books, book_id, user.id)
       IN  last' = [op |-> "edit_book_form",
                    req |-> BookReq(cookie, book_id, NoBody, None),
                    resp |-> IF user = NoUser THEN LoginRedirect
                             ELSE IF book = NoBook THEN NotFound(FALSE)
                             ELSE [TemplateResponse("edit_book.html", 200)
                                     EXCEPT !.books = <<book>>]]
    /\ UNCHANGED <<lib, probe, users, books, now, ticks, reg, bearer, jar>>

---------------------------------------------------------------------------
(* main.py: how the page routes are mounted, and the pages that take no     *)
(* form.  A path is the list of its parts: url.split("/") without the       *)
(* empty part before the first slash.                                       *)

\* APIRouter(prefix="/web") of web/routes.py
RouterPrefix == <<"web">>
\* app.include_router(web_routes.router, prefix="/web")
IncludePrefix == <<"web">>

\* the GET routes as the decorators of web/routes.py declare them
WebGetRoutes ==
    {[path |-> <<"">>, endpoint |-> "web_home"],
     [path |-> <<"login">>, endpoint |-> "login_page"],
     [path |-> <<"register">>, endpoint |-> "register_page"],
     [path |-> <<"books">>, endpoint |-> "books_list"],
     [path |-> <<"books", "new">>, endpoint |-> "add_book_form"],
     [path |-> <<"logout">>, endpoint |-> "logout"]}

\* the GET routes as the application serves them
Registered ==
    {[path |-> IncludePrefix \o RouterPrefix \o r.path, endpoint |-> r.endpoint] :
        r \in WebGetRoutes}
    \cup {[path |-> <<"">>, endpoint |-> "root_redirect"]}

Resolve(path) ==
    IF \E r \in Registered : r.path = path
    THEN (CHOOSE r \in Registered : r.path = path).endpoint
    ELSE "none"

\* the path a Location header names
Segments(url) ==
    CASE url = "/" -> <<"">>
      [] url = "/web/login" -> <<"web", "login">>
      [] url = "/web/books" -> <<"web", "books">>
      [] OTHER -> <<"?">>

\* GET /
root_redirect(cookie) ==
    /\ LET user == get_current_user_web(cookie, users, now)
       IN  last' = [op |-> "root_redirect",
                    req |-> BookReq(cookie, 0, NoBody, None),
                    resp |-> IF user # NoUser
                             THEN RedirectResponse("/web/books")
                             ELSE RedirectResponse("/web/login")]
    /\ UNCHANGED <<lib, probe, users, books, now, ticks, reg, bearer, jar>>

\* GET "/" of the web router
web_home(cookie) ==
    /\ LET user == get_current_user_web(cookie, users, now)
       IN  last' = [op |-> "web_home",
                    req |-> BookReq(cookie, 0, NoBody, None),
                    resp |-> IF user # NoUser
                             THEN RedirectResponse("/web/books")
                             ELSE RedirectResponse("/web/login")]
    /\ UNCHANGED <<lib, probe, users, books, now, ticks, reg, bearer, jar>>

\* GET "/login" of the web router
login_page(cookie) ==
    /\ last' = [op |-> "login_page",
                req |-> BookReq(cookie, 0, NoBody, None),
                resp |-> TemplateResponse("login.html", 200)]
    /\ UNCHANGED <<lib, probe, users, books, now, ticks, reg, bearer, jar>>

\* GET "/register" of the web router
register_page(cookie) ==
    /\ last' = [op |-> "register_page",
                req |-> BookReq(cookie, 0, NoBody, None),
                resp |-> TemplateResponse("register.html", 200)]
    /\ UNCHANGED <<lib, probe, users, books, now, ticks, reg, bearer, jar>>

\* no route matches: Starlette raises HTTPException(404), which goes to the
\* application's exception handler
not_found(cookie) ==
    /\ last' = [op |-> "not_found",
                req |-> BookReq(cookie, 0, NoBody, None),
                resp |-> custom_http_exception_handler(FALSE,
                             HTTPException(404, "Not Found", FALSE))]
    /\ UNCHANGED <<lib, probe, users, books, now, ticks, reg, bearer, jar>>

\* a GET request for a path, with a cookie: the router picks the endpoint
Get(path, cookie) ==
    \/ Resolve(path) = "root_redirect" /\ root_redirect(cookie)
    \/ Resolve(path) = "web_home" /\ web_home(cookie)
    \/ Resolve(path) = "login_page" /\ login_page(cookie)
    \/ Resolve(path) = "register_page" /\ register_page(cookie)
    \/ Resolve(path) = "books_list" /\ books_list(cookie, None)
    \/ Resolve(path) = "add_book_form" /\ add_book_form(cookie)
    \/ Resolve(path) = "logout" /\ cookie = jar /\ logout
    \/ Resolve(path) = "none" /\ not_found(cookie)

\* the client follows the redirect it was just given, with the cookie it
\* has after that response
Follow ==
    /\ last.resp.status = 303
    /\ Get(Segments(last.resp.location), JarAfter(last.req.token, last.resp))

---------------------------------------------------------------------------
(* Specifications *)

Forged == [sub |-> Ann, exp |-> 4 * RegisterExpireSeconds, key |-> "another key"]

\* SpecPw: hash_password and verify_password called directly
InitPw ==
    /\ lib \in Builds
    /\ probe \in [pc : {"start"}, p1 : ProbePasswords, p2 : ProbePasswords,
                  salt : Salts, hashed : {NoHash}, result : {"none"}]
    /\ users = <<>>
    /\ books = <<>>
    /\ now = 0
    /\ ticks = 0
    /\ reg = [r \in {1} |-> IdleReg]
    /\ bearer = NoToken
    /\ jar = NoToken
    /\ last = NoRequest

NextPw ==
    \/ ProbeHash
    \/ ProbeVerify

SpecPw == InitPw /\ [][NextPw]_vars

\* Spec: registration, login, tokens and the two resolvers over time, one
\* request at a time
Init ==
    /\ lib \in Builds
    /\ probe = IdleProbe
    /\ users = <<>>
    /\ books = <<>>
    /\ now = 0
    /\ ticks = 0
    /\ reg = [r \in {1} |-> IdleReg]
    /\ bearer = NoToken
    /\ jar = NoToken
    /\ last = NoRequest

Presented == {bearer, jar}

Next ==
    \/ \E r \in DOMAIN reg, u \in RegUsernames, p \in RegPasswords :
          register_begin(r, u, p)
    \/ \E r \in DOMAIN reg : register_commit(r)
    \/ \E r \in DOMAIN reg, u \in RegUsernames, p \in RegPasswords :
          register_web_begin(r, u, p)
    \/ \E r \in DOMAIN reg : register_web_commit(r)
    \/ \E u \in LoginUsernames, p \in LoginPasswords : login(u, p)
    \/ \E u \in LoginUsernames, p \in LoginPasswords : login_web(u, p)
    \/ logout
    \/ \E d \in TickSteps : Tick(d)
    \/ \E s \in IssueSubs, d \in IssueDeltas : issue(s, d)
    \/ \E t \in Presented : api_read_books(t, None)
    \/ \E t \in Presented : books_list(t, None)

Spec == Init /\ [][Next]_vars

\* SpecReg: register requests of both surfaces interleaving at their awaits
InitReg ==
    /\ lib \in Builds
    /\ probe = IdleProbe
    /\ users = <<>>
    /\ books = <<>>
    /\ now = 0
    /\ ticks = 0
    /\ reg = [r \in 1..MaxReq |-> IdleReg]
    /\ bearer = NoToken
    /\ jar = NoToken
    /\ last = NoRequest

NextReg ==
    \/ \E r \in DOMAIN reg, u \in {Ann, Bob}, p \in {PwA} :
          register_begin(r, u, p)
    \/ \E r \in DOMAIN reg : register_commit(r)
    \/ \E r \in DOMAIN reg, u \in {Ann, Bob}, p \in {PwA} :
          register_web_begin(r, u, p)
    \/ \E r \in DOMAIN reg : register_web_commit(r)

SpecReg == InitReg /\ [][NextReg]_vars


\* SpecBooks: two registered users work on the books table through both
\* surfaces, each with the token its registration issued
T == <<84>>
U == <<85>>
A == <<65>>
B == <<66>>
D == <<68>>
E == <<69>>

AnnToken == create_access_token(Ann, Delta(RegisterExpireSeconds), 0)
BobToken == create_access_token(Bob, Delta(RegisterExpireSeconds), 0)

BookTokens == {AnnToken, BobToken, NoToken}
BookIds == 1..(MaxBooks + 1)

CreateBodies ==
    {[title |-> T, author |-> A, description |-> D],
     [title |-> T, author |-> A, description |-> Unset],
     [title |-> <<>>, author |-> A, description |-> D]}

UpdateBodies ==
    {[title |-> Unset, author |-> B, description |-> Unset],
     [title |-> None, author |-> B, description |-> Unset],
     [title |-> None, author |-> B, description |-> E]}

\* ?search= absent, "t", "_"
Searches == {None, <<116>>, <<95>>}

InitBooks ==
    /\ lib = "truncates"
    /\ probe = IdleProbe
    /\ users = AddUser(AddUser(<<>>, Ann, hash_password(PwA, 1, lib)),
                       Bob, hash_password(PwB, 1, lib))
    /\ books = <<>>
    /\ now = 0
    /\ ticks = 0
    /\ reg = [r \in {1} |-> IdleReg]
    /\ bearer = NoToken
    /\ jar = NoToken
    /\ last = NoRequest

NextBooks ==
    \/ \E t \in BookTokens, b \in CreateBodies :
          NewId(books) \in BookIds /\ api_create_book(t, b)
    \/ \E t \in BookTokens, q \in Searches : api_read_books(t, q)
    \/ \E t \in BookTokens, i \in BookIds, b \in UpdateBodies :
          api_update_book(t, i, b)
    \/ \E t \in BookTokens, i \in BookIds : api_delete_book(t, i)
    \/ \E t \in BookTokens : books_list(t, None)
    \/ \E t \in BookTokens : create_book_web(t, T, A)
    \/ \E t \in BookTokens, i \in BookIds : update_book_web(t, i, U, B)
    \/ \E t \in BookTokens, i \in BookIds : delete_book_web(t, i)

SpecBooks == InitBooks /\ [][NextBooks]_vars

\* SpecGate: every book operation of both surfaces is requested with each
\* kind of token get_current_user and get_current_user_web can be handed
Expired == create_access_token(Ann, Delta(-1), 0)
Subless == create_access_token(NoSub, Delta(RegisterExpireSeconds), 0)
Stranger == create_access_token(Al, Delta(RegisterExpireSeconds), 0)

BadTokens == {NoToken, Malformed, Forged, Expired, Subless, Stranger}
GateTokens == BadTokens \cup {AnnToken}

GateCreates == {[title |-> T, author |-> A, description |-> D],
                [title |-> <<>>, author |-> A, description |-> D]}
GateUpdates == {[title |-> None, author |-> B, description |-> E],
                [title |-> Unset, author |-> B, description |-> Unset]}

InitGate ==
    /\ lib = "truncates"
    /\ probe = IdleProbe
    /\ users = AddUser(AddUser(<<>>, Ann, hash_password(PwA, 1, lib)),
                       Bob, hash_password(PwB, 1, lib))
    /\ books = <<>>
    /\ now = 0
    /\ ticks = 0
    /\ reg = [r \in {1} |-> IdleReg]
    /\ bearer = NoToken
    /\ jar = NoToken
    /\ last = NoRequest

NextGate ==
    \/ \E t \in GateTokens, b \in GateCreates :
          NewId(books) \in BookIds /\ api_create_book(t, b)
    \/ \E t \in GateTokens : api_read_books(t, None)
    \/ \E t \in GateTokens, i \in BookIds, b \in GateUpdates :
          api_update_book(t, i, b)
    \/ \E t \in GateTokens, i \in BookIds : api_delete_book(t, i)
    \/ \E t \in GateTokens : books_list(t, None)
    \/ \E t \in GateTokens : add_book_form(t)
    \/ \E t \in GateTokens : create_book_web(t, T, A)
    \/ \E t \in GateTokens, i \in BookIds : edit_book_form(t, i)
    \/ \E t \in GateTokens, i \in BookIds : update_book_web(t, i, U, B)
    \/ \E t \in GateTokens, i \in BookIds : delete_book_web(t, i)

SpecGate == InitGate /\ [][NextGate]_vars

\* SpecForms: accounts are made on either surface and then used to log in
\* on either surface, with a password of five and one of six characters
FormUsernames == {Ann, Bob}
FormPasswords == {PwShort, PwA}

InitForms ==
    /\ lib \in Builds
    /\ probe = IdleProbe
    /\ users = <<>>
    /\ books = <<>>
    /\ now = 0
    /\ ticks = 0
    /\ reg = [r \in {1} |-> IdleReg]
    /\ bearer = NoToken
    /\ jar = NoToken
    /\ last = NoRequest

NextForms ==
    \/ \E r \in DOMAIN reg, u \in FormUsernames, p \in FormPasswords :
          register_begin(r, u, p)
    \/ \E r \in DOMAIN reg : register_commit(r)
    \/ \E r \in DOMAIN reg, u \in FormUsernames, p \in FormPasswords :
          register_web_begin(r, u, p)
    \/ \E r \in DOMAIN reg : register_web_commit(r)
    \/ \E u \in FormUsernames, p \in FormPasswords : login(u, p)
    \/ \E u \in FormUsernames, p \in FormPasswords : login_web(u, p)

SpecForms == InitForms /\ [][NextForms]_vars

\* SpecNav: a browser asks for pages by path and follows the redirects it
\* is given, while the owner's books come and go
NavPaths == {r.path : r \in Registered}
            \cup {Segments("/web/login"), Segments("/web/books")}
NavCookies == {NoToken, AnnToken, Expired}

InitNav ==
    /\ lib = "truncates"
    /\ probe = IdleProbe
    /\ users = AddUser(AddUser(<<>>, Ann, hash_password(PwA, 1, lib)),
                       Bob, hash_password(PwB, 1, lib))
    /\ books = <<>>
    /\ now = 0
    /\ ticks = 0
    /\ reg = [r \in {1} |-> IdleReg]
    /\ bearer = NoToken
    /\ jar = NoToken
    /\ last = NoRequest

NextNav ==
    \/ \E path \in NavPaths, cookie \in NavCookies : Get(path, cookie)
    \/ Follow
    \/ \E b \in GateCreates :
          NewId(books) \in BookIds /\ api_create_book(AnnToken, b)
    \/ \E i \in BookIds : api_delete_book(AnnToken, i)

SpecNav == InitNav /\ [][NextNav]_vars

\* SpecShelf: ann's shelf holds none, one, DefaultLimit or DefaultLimit + 1
\* books; both users list and delete
\* the table after n calls of create_book for ann: ids 1..n in order
Shelf(n) ==
    [i \in 1..n |-> [id |-> i, title |-> T, author |-> A, description |-> D,
                     owner_id |-> 1]]

ShelfSizes == {0, 1, DefaultLimit, DefaultLimit + 1}

InitShelf ==
    /\ lib = "truncates"
    /\ probe = IdleProbe
    /\ users = AddUser(AddUser(<<>>, Ann, hash_password(PwA, 1, lib)),
                       Bob, hash_password(PwB, 1, lib))
    /\ \E n \in ShelfSizes : books = Shelf(n)
    /\ now = 0
    /\ ticks = 0
    /\ reg = [r \in {1} |-> IdleReg]
    /\ bearer = NoToken
    /\ jar = NoToken
    /\ last = NoRequest

NextShelf ==
    \/ \E t \in BookTokens : api_read_books(t, None)
    \/ \E t \in BookTokens : books_list(t, None)
    \/ \E t \in BookTokens, i \in BookIds : api_delete_book(t, i)
    \/ \E t \in BookTokens, i \in BookIds : delete_book_web(t, i)

SpecShelf == InitShelf /\ [][NextShelf]_vars

---------------------------------------------------------------------------
(* Properties *)

\* who a request of the last response was made as
Caller == user_by_username(users, last.req.token.sub)

Owner(book_id) ==
    IF \E b \in BookRows(books) : b.id = book_id
    THEN (CHOOSE b \in BookRows(books) : b.id = book_id).owner_id
    ELSE 0

ValidUpdates == {b \in UpdateBodies : BookUpdateValid(b)}

\* C1 (SpecBooks): ownership isolation.  For every book and every user other
\* than its owner, get_book_by_id, update_book and delete_book with that
\* user's id answer None, None and False and leave the table as it is, while
\* with the owner's id they succeed; and an update or delete request for a
\* book of another user never succeeds and, once it passes validation, is
\* answered 404.
C1_OwnershipIsolation ==
    /\ \A b \in BookRows(books), u \in UserRows(users), upd \in ValidUpdates :
         IF u.id # b.owner_id
         THEN /\ get_book_by_id(books, b.id, u.id) = NoBook
              /\ update_book(books, b.id, upd, u.id)
                     = [table |-> books, result |-> NoBook]
              /\ delete_book(books, b.id, u.id)
                     = [table |-> books, result |-> FALSE]
         ELSE /\ get_book_by_id(books, b.id, u.id) = b
              /\ update_book(books, b.id, upd, u.id).result # NoBook
              /\ update_book(books, b.id, upd, u.id).result.id = b.id
              /\ delete_book(books, b.id, u.id).result = TRUE
              /\ b \notin BookRows(delete_book(books, b.id, u.id).table)
    /\ ( /\ last.op \in {"update_book", "delete_book",
                         "update_book_web", "delete_book_web"}
         /\ Caller # NoUser
         /\ Owner(last.req.book_id) \notin {0, Caller.id} )
       => /\ last.resp.status \notin {200, 303}
          /\ ( \/ last.op \in {"delete_book", "delete_book_web"}
               \/ BookUpdateValid(last.req.body) )
             => last.resp.status = 404

\* C1 witness: Bob's delete of a book Ann owns has just been answered 404
C1_Witness ==
    /\ last.op = "delete_book"
    /\ last.req.token = BobToken
    /\ last.resp.status = 404
    /\ Owner(last.req.book_id) = user_by_username(users, Ann).id

\* C2 (SpecReg): a register request for a username that is taken when the
\* request completes is answered 400 (Conflict), however the requests
\* interleave, and no two user rows share a username.
C2_DuplicateIsConflict ==
    /\ ( /\ last.op \in {"register", "register_web"}
         /\ last.req.valid
         /\ last.req.credentials # "unknown" )
       => last.resp.status = 400
    /\ \A i, j \in 1..Len(users) :
         users[i].username = users[j].username => i = j

\* C3 (Spec): login with the credentials of a registered user succeeds and
\* issues a token that validation accepts.
C3_RegisterThenLogin ==
    ( /\ last.op = "login"
      /\ last.req.valid
      /\ last.req.credentials = "good" )
    => /\ last.resp.status = 200
       /\ last.resp.access_token # NoToken
       /\ now <= last.resp.access_token.exp
            => jwt_decode(last.resp.access_token, now).ok

\* C4 (Spec): a token issued by login or by the web login is accepted at
\* every instant less than 30 minutes after it was issued (no token is
\* issued before second 0, so every instant before second 1800 is one).
C4_LoginTokenLifetime ==
    \A token \in {last.resp.access_token, last.req.token} :
      ( /\ last.op \in {"login", "login_web"}
        /\ token # NoToken
        /\ now < RegisterExpireSeconds )
      => jwt_decode(token, now).ok

\* C5 (Spec): the response delivered for a successful web login or web
\* registration carries the library_token cookie with the issued token, so
\* the browser holds it for its next request.
C5_WebLoginSetsCookie ==
    ( /\ last.op \in {"login_web", "register_web"}
      /\ last.resp.status = 303 )
    => /\ last.resp.set_cookie = last.req.token
       /\ jar = last.req.token

\* C6 (Spec): a login with an unknown username or a wrong password is
\* answered 401 with WWW-Authenticate: Bearer and without a token.
C6_LoginFailureHeader ==
    ( /\ last.op = "login"
      /\ last.req.valid
      /\ last.req.credentials \in {"unknown", "wrong"} )
    => /\ last.resp.status = 401
       /\ last.resp.www_authenticate
       /\ last.resp.access_token = NoToken

\* the book the last request named, as it is now
Named == get_book_by_id(books, last.req.book_id, Caller.id)

\* C7 (SpecBooks): an update of an owned book that supplies only an author
\* (title absent or None, no description) succeeds and sets the author.
C7_PartialUpdate ==
    ( /\ last.op = "update_book"
      /\ Caller # NoUser
      /\ Named # NoBook
      /\ last.req.body.title \in {None, Unset}
      /\ IsStr(last.req.body.author)
      /\ last.req.body.description = Unset )
    => /\ last.resp.status = 200
       /\ Named.author = last.req.body.author

\* C8 (SpecPw): two passwords longer than 72 bytes that agree on their
\* first 72 bytes verify against each other's hash: verify_password returns
\* True, not False and not an exception.
C8_TruncationMirrored ==
    ( /\ probe.pc = "verified"
      /\ Len(Utf8(probe.p1)) > BcryptMaxBytes
      /\ Len(Utf8(probe.p2)) > BcryptMaxBytes
      /\ SubSeq(Utf8(probe.p1), 1, BcryptMaxBytes)
           = SubSeq(Utf8(probe.p2), 1, BcryptMaxBytes) )
    => probe.result = "True"

\* C9 (Spec): a correctly signed token of an existing user whose exp has
\* passed is refused on both resolver paths: get_current_user raises 401,
\* get_current_user_web returns None; a request that presented one is
\* answered 401 on the API and sent to the login page on the web.
C9_ExpiredTokenRejected ==
    /\ \A token \in {bearer, jar} :
         ( /\ token.key = SECRET_KEY
           /\ token.exp < now
           /\ user_by_username(users, token.sub) # NoUser )
         => /\ get_current_user(token, users, now) = Unauthorized
            /\ get_current_user_web(token, users, now) = NoUser
    /\ (last.op = "read_books" /\ last.req.expired)
         => last.resp.status = 401 /\ last.resp.books = <<>>
    /\ (last.op = "books_list" /\ last.req.expired)
         => last.resp = LoginRedirect

\* C9 witness: a request has just presented a correctly signed token of a
\* registered user that expired one second before
C9_Witness ==
    /\ last.op \in {"read_books", "books_list"}
    /\ last.req.expired
    /\ last.req.token.key = SECRET_KEY
    /\ user_by_username(users, last.req.token.sub) # NoUser
    /\ last.req.token.exp = now - 1

\* C10 (SpecBooks): a create request from an authenticated user with a
\* valid title and author and no description succeeds and adds a book of
\* the caller with an empty description.
C10_CreateWithoutDescription ==
    ( /\ last.op \in {"create_book", "create_book_web"}
      /\ Caller # NoUser
      /\ StrIn(last.req.body.title, 1, TitleMaxLen)
      /\ StrIn(last.req.body.author, 1, AuthorMaxLen)
      /\ last.req.body.description = Unset )
    => /\ last.resp.status \in {200, 303}
       /\ \E b \in BookRows(books) :
            /\ b.owner_id = Caller.id
            /\ b.title = last.req.body.title
            /\ b.description = <<>>


WebBookOps == {"books_list", "add_book_form", "create_book_web",
               "edit_book_form", "update_book_web", "delete_book_web"}
ApiBookOps == {"create_book", "read_books", "update_book", "delete_book"}

Contains(text, search) ==
    \E i \in 0..(Len(text) - Len(search)) :
        \A j \in 1..Len(search) : Lower(text[i + j]) = Lower(search[j])

\* C12 (SpecBooks): GET /api/books/?search=s answers with exactly the
\* caller's books whose title or author contains s as a case-insensitive
\* substring, every character of s taken literally, in insertion order.
C12_SearchIsLiteralSubstring ==
    ( /\ last.op = "read_books"
      /\ last.resp.status = 200
      /\ IsStr(last.req.search)
      /\ last.req.search # <<>> )
    => LET Literal(b) ==
               /\ b.owner_id = Caller.id
               /\ \/ Contains(b.title, last.req.search)
                  \/ Contains(b.author, last.req.search)
       IN  last.resp.books = SelectSeq(books, Literal)


\* C13 (Spec): logout revokes nothing.  The logout step changes neither the
\* users nor the books table nor what either resolver makes of the token the
\* client holds; and in every state after a logout, a correctly signed token
\* of an existing user is accepted by get_current_user and by
\* get_current_user_web exactly while now <= exp.
C13_LogoutRevokesNothing ==
    /\ [](last.op = "logout" =>
            \A token \in {bearer, last.req.token} :
               ( /\ token.key = SECRET_KEY
                 /\ user_by_username(users, token.sub) # NoUser )
               => LET u == user_by_username(users, token.sub)
                  IN  IF token.exp >= now
                      THEN /\ get_current_user(token, users, now) =
                                 [raised |-> FALSE, user |-> u]
                           /\ get_current_user_web(token, users, now) = u
                      ELSE /\ get_current_user(token, users, now) = Unauthorized
                           /\ get_current_user_web(token, users, now) = NoUser)
    /\ [][logout =>
            /\ users' = users
            /\ books' = books
            /\ get_current_user(bearer', users', now') =
                  get_current_user(bearer, users, now)
            /\ get_current_user_web(bearer', users', now') =
                  get_current_user_web(bearer, users, now)]_vars

\* C13 witness: after a logout, at the very second of its exp, the token
\* issued earlier still resolves to its user
C13_Witness ==
    /\ last.op = "logout"
    /\ ticks > 0
    /\ bearer.exp = now
    /\ get_current_user(bearer, users, now).user.username = Ann


\* C14 (SpecGate): a step that completes a JSON API book operation (create,
\* list, update, delete) whose bearer token is missing, malformed, signed
\* with another key, expired, without sub or naming no existing user answers
\* 401 with no book in the response, whatever the body, and leaves the books
\* table as it was.
C14_BearerFailureIs401 ==
    [][(last'.op \in ApiBookOps /\ last'.req.token \in BadTokens)
          => /\ last'.resp.status = 401
             /\ last'.resp.books = <<>>
             /\ books' = books]_vars

\* C14 witness: a delete naming an existing book, and a create with a valid
\* body, each refused for its token
C14_Witness ==
    \/ /\ last.op = "delete_book"
       /\ last.req.token = Stranger
       /\ last.resp.status = 401
       /\ \E b \in BookRows(books) : b.id = last.req.book_id
    \/ /\ last.op = "create_book"
       /\ last.req.token \in {Expired, Forged, Subless, Malformed, NoToken}
       /\ BookCreateValid(last.req.body)
       /\ last.resp.status = 401


\* the tokens a client can hand to a resolver: the ones it holds, none, and
\* one of each way of being invalid
TokenKinds == {bearer, jar, NoToken, Malformed, Forged, Expired, Subless,
               Stranger, AnnToken}

WellFormed(token) ==
    /\ token # NoToken
    /\ token.key = SECRET_KEY
    /\ token.exp >= now
    /\ token.sub # NoSub
    /\ \E u \in UserRows(users) : u.username = token.sub

\* C15 (Spec): at every time and users table, get_current_user_web returns
\* the row of users whose username is the token's sub when the cookie holds
\* a token signed with SECRET_KEY, not past its exp, with a sub naming such a
\* row, and None in every other case (no cookie, malformed, other key,
\* expired, no sub, no such user); the book list page it guards never ends
\* in an error status.
C15_CookiePathNeverRaises ==
    /\ \A token \in TokenKinds :
         LET user == get_current_user_web(token, users, now)
         IN  IF WellFormed(token)
             THEN user \in UserRows(users) /\ user.username = token.sub
             ELSE user = NoUser
    /\ last.op = "books_list" => last.resp.status \in {200, 303}

\* C15 witness: the book list was asked for with a correctly signed,
\* unexpired cookie whose sub names nobody registered, and sent the browser
\* to the login page
C15_Witness ==
    /\ last.op = "books_list"
    /\ last.req.token.key = SECRET_KEY
    /\ ~last.req.expired
    /\ last.req.token.sub = Ann
    /\ user_by_username(users, Ann) = NoUser
    /\ last.resp = LoginRedirect
    /\ now > 0


\* C16 (Spec): at every time and users table and for every token, the
\* bearer path and the cookie path give the same answer: get_current_user
\* returns user u exactly when get_current_user_web returns u, and raises
\* 401 exactly when get_current_user_web returns None.
C16_ResolversAgree ==
    \A token \in TokenKinds :
       LET b == get_current_user(token, users, now)
           c == get_current_user_web(token, users, now)
       IN  /\ b.raised <=> c = NoUser
           /\ b.user = c

\* C16 witness: the token the API login issued is in the client's hands, and
\* both paths resolve it to the same registered user
C16_Witness ==
    /\ last.op = "books_list"
    /\ last.resp.status = 200
    /\ last.req.token = bearer
    /\ get_current_user(bearer, users, now).user.username = Ann
    /\ get_current_user_web(bearer, users, now).username = Ann


UserIds == {u.id : u \in UserRows(users)}

\* C17 (SpecBooks): delete is a hard delete.  On every reachable books table,
\* for every user and id: when the user owns a book with that id, delete_book
\* returns True, afterwards get_book_by_id for the id is None, get_books does
\* not list the book, a second delete_book returns False, and the table is
\* the old one without that row; otherwise delete_book returns False and the
\* table is the old one.  A completed delete request of either surface
\* changes books in exactly that way.
C17_HardDelete ==
    /\ [](\A owner_id \in UserIds, book_id \in BookIds :
            LET book == get_book_by_id(books, book_id, owner_id)
                done == delete_book(books, book_id, owner_id)
                Other(b) == b.id # book_id
                listed == get_books(done.table, owner_id, 0, DefaultLimit, None)
            IN  IF book # NoBook
                THEN /\ done.result = TRUE
                     /\ get_book_by_id(done.table, book_id, owner_id) = NoBook
                     /\ \A i \in 1..Len(listed) : listed[i].id # book_id
                     /\ delete_book(done.table, book_id, owner_id).result = FALSE
                     /\ done.table = SelectSeq(books, Other)
                ELSE /\ done.result = FALSE
                     /\ done.table = books)
    /\ [][last'.op \in {"delete_book", "delete_book_web"} =>
            LET book_id == last'.req.book_id
                owner == user_by_username(users, last'.req.token.sub)
                Other(b) == b.id # book_id
            IN  IF last'.resp.status \in {200, 303} /\ last'.resp.location # "/web/login"
                THEN /\ get_book_by_id(books, book_id, owner.id) # NoBook
                     /\ books' = SelectSeq(books, Other)
                ELSE books' = books]_vars

\* C17 witness: a delete request succeeded, the id is gone and another book
\* is still there
C17_Witness ==
    /\ last.op \in {"delete_book", "delete_book_web"}
    /\ last.resp.status \in {200, 303}
    /\ last.resp.location # "/web/login"
    /\ \A b \in BookRows(books) : b.id # last.req.book_id
    /\ books # <<>>


\* C18 (SpecBooks): an update-form submission from the owner of the named
\* book, with a title and an author within their length limits and no
\* description, is answered with the redirect to the book list, and the book
\* then carries the submitted title and author.
C18_WebUpdateSucceeds ==
    ( /\ last.op = "update_book_web"
      /\ Caller # NoUser
      /\ Owner(last.req.book_id) = Caller.id
      /\ StrIn(last.req.body.title, 1, TitleMaxLen)
      /\ StrIn(last.req.body.author, 1, AuthorMaxLen) )
    => /\ last.resp.status = 303
       /\ last.resp.location = "/web/books"
       /\ Named.title = last.req.body.title
       /\ Named.author = last.req.body.author


\* C19 (Spec): a token made by create_access_token with an explicitly given
\* expires_delta carries exp = time of the call + expires_delta, for a
\* negative, a zero and a positive expires_delta alike.
C19_ExpIsIssuancePlusTtl ==
    (last.op = "issue" /\ last.req.expires_delta.given)
    => last.resp.access_token.exp =
          last.req.at + last.req.expires_delta.seconds


\* the id and the owner of every row, in table order
Keys(table) == [i \in 1..Len(table) |-> <<table[i].id, table[i].owner_id>>]

Without(seq, i) == SubSeq(seq, 1, i - 1) \o SubSeq(seq, i + 1, Len(seq))

\* C20 (SpecBooks): in every state each book has one owner_id, which is the
\* id of a row of users, and no two books share an id; and every step of
\* either surface leaves the (id, owner_id) of every book it keeps as it
\* was: the pairs of the table stay the same, or one pair with a fresh id is
\* appended, or one pair is removed.
C20_OwnerImmutable ==
    /\ [](/\ \A b \in BookRows(books) : b.owner_id \in UserIds
          /\ \A i, j \in 1..Len(books) :
                books[i].id = books[j].id => i = j)
    /\ [][\/ Keys(books') = Keys(books)
          \/ /\ Len(books') = Len(books) + 1
             /\ SubSeq(Keys(books'), 1, Len(books)) = Keys(books)
             /\ \A b \in BookRows(books) : b.id # books'[Len(books')].id
          \/ \E i \in 1..Len(books) :
                Keys(books') = Without(Keys(books), i)]_vars

\* C20 witness: an update has just gone through while both users own a book
C20_Witness ==
    /\ last.op = "update_book"
    /\ last.resp.status = 200
    /\ \E b1, b2 \in BookRows(books) : b1.owner_id # b2.owner_id
    /\ Named.author = last.req.body.author


\* C21 (SpecForms): a login, on the API or on the web form, with the username
\* and the password an account was registered with on either surface
\* succeeds: the API answers 200 with a token, the form answers with the
\* redirect to the book list.
C21_RegisteredCanLogin ==
    /\ (last.op = "login" /\ last.req.credentials = "good")
          => /\ last.resp.status = 200
             /\ last.resp.access_token # NoToken
    /\ (last.op = "login_web" /\ last.req.credentials = "good")
          => /\ last.resp.status = 303
             /\ last.resp.location = "/web/books"


\* C22 (SpecNav): every redirect the application answers with names a path
\* a handler is registered for, and a browser that follows a redirect is
\* never answered 404.
C22_RedirectsAreServed ==
    [][/\ last'.resp.status = 303
             => Resolve(Segments(last'.resp.location)) # "none"
       /\ Follow => last'.resp.status # 404]_vars


\* C23 (Spec): a failed login gives the same outcome whether the username is
\* unregistered or registered with another password: the API answers 401
\* with the one detail and no token, the web form answers with the login
\* page and status 401, and neither sets a cookie.
C23_LoginFailureUniform ==
    /\ ( /\ last.op = "login"
         /\ last.req.valid
         /\ last.req.credentials \in {"unknown", "wrong"} )
       => /\ last.resp.status = 401
          /\ last.resp.detail = "bad credentials"
          /\ last.resp.access_token = NoToken
    /\ ( /\ last.op = "login_web"
         /\ last.req.credentials \in {"unknown", "wrong"} )
       => /\ last.resp = TemplateResponse("login.html", 401)
          /\ last.req.token = NoToken


\* C24 (SpecShelf): a list request without a search, on the API or on the
\* web page, answers with every book the caller owns, in table order.
C24_ListReturnsAll ==
    ( /\ last.op \in {"read_books", "books_list"}
      /\ last.resp.status = 200
      /\ last.req.search = None )
    => LET Mine(b) == b.owner_id = Caller.id
       IN  last.resp.books = SelectSeq(books, Mine)

====
